---- MODULE Spec2Model ----
(***************************************************************************)
(* The PINN heat-equation notebook (PINN_Heat_Equation.ipynb): the cells   *)
(* that define fun_u_0, fun_u_b, heat_src, fun_residual and draw_X.        *)
(*                                                                         *)
(* The state is one call of one of these functions: `call` holds the       *)
(* function and its arguments, `result` is pending until the call has run  *)
(* and then holds its outcome (a returned value, None, or the exception    *)
(* that ended it).  The functions read no state but the notebook's global  *)
(* constants, so one call from every argument tuple covers every session.  *)
(*                                                                         *)
(* Numbers.  Reals are exact rationals: a time or a phase is a record      *)
(* [num, den] with den > 0, a spatial coordinate is an integer number of   *)
(* tenths (x = 5 is 0.5), and the thresholds of the source are written as  *)
(* tenths as well.  A tensor is [rank, rows]: rank 1 with rows = <<x0,x1>> *)
(* is one point (shape (2,)), rank 2 with rows = <<p1, ..., pn>> is a      *)
(* batch of n points (shape (n,2)).  A column (shape (n,1)) is a sequence  *)
(* of n entries.                                                           *)
(***************************************************************************)
EXTENDS Integers, Sequences, FiniteSets

VARIABLES call, result

vars == <<call, result>>

--------------------------------------------------------------------------
(* Bounds of the explored inputs *)

\* times are n/TimeDen for n in -NegTime..MaxTime
TimeDen == 100
NegTime == 20
MaxTime == 60
\* phases given directly to the window tests are n/PhaseDen, n in -PhaseDen..PhaseDen
PhaseDen == 20
\* coordinates are multiples of 0.5 in -MaxCoord/2 .. MaxCoord/2
MaxCoord == 2
\* batches hold 0..MaxBatch points
MaxBatch == 2
\* derivative values range over 0..MaxDeriv
MaxDeriv == 4
\* draw_X is asked for 0..MaxSamples points
MaxSamples == 2

--------------------------------------------------------------------------
(* Program constants *)

\* period = 0.2 = PeriodNum / PeriodDen
PeriodNum == 2
PeriodDen == 10

rounding_name_ceil == "ceil"

\* the name looked up in module math by the phase computation: math.cel
rounding_name == "cel"

\* the callables module math has under the names a rounding call could mean
MathAttributes == {"ceil", "floor", "trunc"}

--------------------------------------------------------------------------
(* Input sets *)

Coords == {5 * c : c \in -MaxCoord..MaxCoord}

Point(x0, x1) == [rank |-> 1, rows |-> <<x0, x1>>]

Points == {Point(x0, x1) : x0 \in Coords, x1 \in Coords}

\* the rows a batch is built from: one on each side of the half-planes
BatchRows == {<<10, 10>>, <<-10, -10>>, <<10, -10>>}

SeqsUpTo(S, n) == UNION {[1..k -> S] : k \in 0..n}

Batches == {[rank |-> 2, rows |-> r] : r \in SeqsUpTo(BatchRows, MaxBatch)}

Time(n) == [num |-> n, den |-> TimeDen]

Times == {Time(n) : n \in -NegTime..MaxTime}

TimeBatches == SeqsUpTo({Time(0), Time(1)}, MaxBatch)

Phases == {[num |-> n, den |-> PhaseDen] : n \in -PhaseDen..PhaseDen}

--------------------------------------------------------------------------
(* Tensor library used by the notebook *)

\* x.shape[0]
shape0(x) == Len(x.rows)

\* tf.zeros((n,1))
tf_zeros(n) == [i \in 1..n |-> 0]

tf_full(n) == [i \in 1..n |-> n]

\* tf.ones((n,1))
tf_ones(n) == [i \in 1..n |-> 1]

\* outcomes of a call
Returned(v, branch, phase) ==
    [kind |-> "value", value |-> v, branch |-> branch, phase |-> phase]

Raised(exc, branch, phase) ==
    [kind |-> exc, value |-> <<>>, branch |-> branch, phase |-> phase]

NoPhase == [num |-> 0, den |-> 0]

ReturnedNone == [kind |-> "None", value |-> <<>>, branch |-> "none", phase |-> NoPhase]

\* math.ceil, math.floor, math.trunc of the rational num/den, den > 0
math_ceil(num, den) == -((-num) \div den)

math_floor(num, den) == num \div den

math_trunc(num, den) == IF num >= 0 THEN num \div den ELSE -((-num) \div den)

math_call(name, num, den) ==
    CASE name = "ceil" -> math_ceil(num, den)
      [] name = "floor" -> math_floor(num, den)
      [] name = "trunc" -> math_trunc(num, den)

--------------------------------------------------------------------------
(* fun_u_0, fun_u_b *)

fun_u_0(x) ==
    LET n == shape0(x)
    IN  Returned(tf_zeros(n), "none", NoPhase)

fun_u_b_len_t(x, t) ==
    LET n == Len(t)
    IN  Returned(tf_zeros(n), "none", NoPhase)

fun_u_b(x, t) ==
    LET n == shape0(x)
    IN  Returned(tf_zeros(n), "none", NoPhase)

--------------------------------------------------------------------------
(* heat_src *)

\* t/period as a rational
t_over_period(t) == [num |-> t.num * PeriodDen, den |-> t.den * PeriodNum]

point_within_period_floor(name, t) ==
    LET q == t_over_period(t)
    IN  [num |-> q.num - q.den * math_floor(q.num, q.den), den |-> q.den]

\* t/period - math.<name>(t/period)
point_within_period(name, t) ==
    LET q == t_over_period(t)
    IN  [num |-> q.num - q.den * math_call(name, q.num, q.den), den |-> q.den]

in_window_1_open(p) == 10 * p.num >= 0 /\ 10 * p.num < 2 * p.den

\* point_within_period >= 0.0 and point_within_period <= 0.2
in_window_1(p) == 10 * p.num >= 0 /\ 10 * p.num <= 2 * p.den

\* point_within_period >= 0.5 and point_within_period <= 0.7
in_window_2(p) == 10 * p.num >= 5 * p.den /\ 10 * p.num <= 7 * p.den

\* (x[0] > 0.5) and (x[1] > -0.5), x one point
in_region_1(x) == x.rows[1] > 5 /\ x.rows[2] > -5

\* (x[0] > -0.5) and (x[1] > 0.5), x one point
in_region_2(x) == x.rows[1] > -5 /\ x.rows[2] > 5

\* the column a spatial test selects.  On a batch x[0] is its first row: an
\* empty batch has none, and otherwise x[0] > 0.5 is a tensor of two truth
\* values, which `and` cannot reduce to one
region_result(x, n, inside, branch, p) ==
    IF x.rank = 2
    THEN IF n = 0
         THEN Raised("IndexError", branch, p)
         ELSE Raised("ValueError", branch, p)
    ELSE IF inside
         THEN Returned(tf_ones(n), branch, p)
         ELSE Returned(tf_zeros(n), branch, p)

\* the if / elif / else chain on point_within_period
heat_src_windows(p, x) ==
    LET n == shape0(x)
    IN  IF in_window_1(p)
        THEN region_result(x, n, x.rank = 1 /\ in_region_1(x), "window1", p)
        ELSE IF in_window_2(p)
             THEN region_result(x, n, x.rank = 1 /\ in_region_2(x), "window2", p)
             ELSE Returned(tf_zeros(n), "else", p)

\* heat_src with module math's attribute <name> as the rounding call
heat_src_reading(name, x, t) ==
    IF name \notin MathAttributes
    THEN Raised("AttributeError", "none", NoPhase)
    ELSE heat_src_windows(point_within_period(name, t), x)

heat_src(x, t) == heat_src_reading(rounding_name, x, t)

--------------------------------------------------------------------------
(* fun_residual, draw_X *)

fun_residual_plus(x, t, f_x, u_xx, u_yy, u_t, u) == f_x + u_xx + u_yy + u_t

fun_residual(x, t, f_x, u_xx, u_yy, u_t, u) == f_x + u_xx + u_yy - u_t

\* the body stops after dim = a.shape[0]: the call returns None
draw_X(num_samples, a, b) ==
    LET dim == shape0(a)
    IN  ReturnedNone

--------------------------------------------------------------------------
(* The calls *)

Pending == [kind |-> "pending", value |-> <<>>, branch |-> "none", phase |-> NoPhase]

FunU0Calls == {[fn |-> "fun_u_0", x |-> x] : x \in Batches}

FunUbCalls == {[fn |-> "fun_u_b", x |-> x, t |-> t] : x \in Batches, t \in TimeBatches}

HeatSrcCalls == {[fn |-> "heat_src", x |-> x, t |-> t] : x \in Points \cup Batches, t \in Times}

Derivs == 0..MaxDeriv

FunResidualCalls ==
    {[fn |-> "fun_residual", x |-> x, t |-> t, f_x |-> f_x,
      u_xx |-> u_xx, u_yy |-> u_yy, u_t |-> u_t, u |-> u] :
        x \in 0..1, t \in 0..1, u \in 0..1, f_x \in 0..1,
        u_xx \in Derivs, u_yy \in Derivs, u_t \in Derivs}

\* lower and upper bound vectors a <= b
Boxes == {ab \in Points \X Points :
             ab[1].rows[1] <= ab[2].rows[1] /\ ab[1].rows[2] <= ab[2].rows[2]}

DrawXCalls ==
    {[fn |-> "draw_X", num_samples |-> n, a |-> ab[1], b |-> ab[2]] :
        n \in 0..MaxSamples, ab \in Boxes}

WindowCalls ==
    {[fn |-> "heat_src_windows", x |-> x, p |-> p] : x \in Points \cup Batches, p \in Phases}

Init ==
    /\ \/ call \in FunU0Calls
       \/ call \in FunUbCalls
       \/ call \in HeatSrcCalls
       \/ call \in FunResidualCalls
       \/ call \in DrawXCalls
    /\ result = Pending

CallFunU0 ==
    /\ result = Pending
    /\ call.fn = "fun_u_0"
    /\ result' = fun_u_0(call.x)
    /\ UNCHANGED call

CallFunUb ==
    /\ result = Pending
    /\ call.fn = "fun_u_b"
    /\ result' = fun_u_b(call.x, call.t)
    /\ UNCHANGED call

CallHeatSrc ==
    /\ result = Pending
    /\ call.fn = "heat_src"
    /\ result' = heat_src(call.x, call.t)
    /\ UNCHANGED call

CallFunResidual ==
    /\ result = Pending
    /\ call.fn = "fun_residual"
    /\ result' = Returned(fun_residual(call.x, call.t, call.f_x, call.u_xx,
                                       call.u_yy, call.u_t, call.u),
                          "none", NoPhase)
    /\ UNCHANGED call

CallDrawX ==
    /\ result = Pending
    /\ call.fn = "draw_X"
    /\ result' = draw_X(call.num_samples, call.a, call.b)
    /\ UNCHANGED call

Next ==
    \/ CallFunU0
    \/ CallFunUb
    \/ CallHeatSrc
    \/ CallFunResidual
    \/ CallDrawX

Spec == Init /\ [][Next]_vars

\* heat_src with math.cel read as math.ceil
InitCeil ==
    /\ call \in HeatSrcCalls
    /\ result = Pending

CallHeatSrcCeil ==
    /\ result = Pending
    /\ call.fn = "heat_src"
    /\ result' = heat_src_reading("ceil", call.x, call.t)
    /\ UNCHANGED call

NextCeil == CallHeatSrcCeil

SpecCeil == InitCeil /\ [][NextCeil]_vars

\* the window chain of heat_src, entered with every phase value
InitWindows ==
    /\ call \in WindowCalls
    /\ result = Pending

CallWindows ==
    /\ result = Pending
    /\ call.fn = "heat_src_windows"
    /\ result' = heat_src_windows(call.p, call.x)
    /\ UNCHANGED call

NextWindows == CallWindows

SpecWindows == InitWindows /\ [][NextWindows]_vars

--------------------------------------------------------------------------
(* Properties *)

Done == result.kind # "pending"

\* the source term as specified: phase = (t / period) mod 1, value 1 in the
\* first window and first region, else 1 in the second window and second
\* region, else 0
SpecPhase(t) ==
    LET q == t_over_period(t)
    IN  [num |-> q.num % q.den, den |-> q.den]

SpecHeatSrc(x, t) ==
    LET p == SpecPhase(t)
    IN  IF 0 <= 10 * p.num /\ 10 * p.num <= 2 * p.den
           /\ x.rows[1] > 5 /\ x.rows[2] > -5
        THEN 1
        ELSE IF 5 * p.den <= 10 * p.num /\ 10 * p.num <= 7 * p.den
                /\ x.rows[1] > -5 /\ x.rows[2] > 5
             THEN 1
             ELSE 0

\* t + k * period
Shifted(t, k) ==
    [num |-> t.num * PeriodDen + k * PeriodNum * t.den, den |-> t.den * PeriodDen]

RatEq(p, q) == p.num * q.den = q.num * p.den

\* t is an integer multiple of period
MultipleOfPeriod(t) == (t.num * PeriodDen) % (t.den * PeriodNum) = 0

\* C1: heat_src(x, t) on one point returns 1 or 0 as the specified source
\* term does, with phase = (t / period) mod 1.
C1_HeatSrcAsSpecified ==
    (call.fn = "heat_src" /\ call.x.rank = 1 /\ Done) =>
        /\ result.kind = "value"
        /\ \A i \in DOMAIN result.value :
               result.value[i] = SpecHeatSrc(call.x, call.t)

\* C2: the phase computed for t and for t + k * period are the same and
\* heat_src returns the same value at both times.
C2_PeriodicInTime ==
    (call.fn = "heat_src" /\ call.x.rank = 1 /\ Done) =>
        \A k \in -1..1 :
            LET other == heat_src(call.x, Shifted(call.t, k))
            IN  /\ result.kind = "value"
                /\ other.kind = "value"
                /\ RatEq(result.phase, other.phase)
                /\ result.value = other.value

\* C3: every value the window chain of heat_src returns is a column whose
\* entries are all 0 or 1.
C3_ZeroOrOne ==
    (call.fn = "heat_src_windows" /\ result.kind = "value") =>
        \A i \in DOMAIN result.value : result.value[i] \in {0, 1}

C3_Witness ==
    /\ call.fn = "heat_src_windows"
    /\ result.kind = "value"
    /\ result.branch = "window2"
    /\ result.value = <<1, 1>>

\* C4: fun_u_0(x) and fun_u_b(x, t) return a column of as many zeros as x
\* has points, whatever x and t hold.
C4_ZeroColumn ==
    (call.fn \in {"fun_u_0", "fun_u_b"} /\ Done) =>
        /\ result.kind = "value"
        /\ Len(result.value) = Len(call.x.rows)
        /\ \A i \in DOMAIN result.value : result.value[i] = 0

C4_Witness ==
    /\ call.fn = "fun_u_b"
    /\ Len(call.x.rows) = 2
    /\ Len(call.t) = 1
    /\ result.kind = "value"
    /\ result.value = <<0, 0>>

\* C5: fun_residual returns f_x + u_xx + u_yy - u_t, whatever x, t and u are.
C5_Residual ==
    (call.fn = "fun_residual" /\ Done) =>
        /\ result.kind = "value"
        /\ result.value = ((call.f_x + call.u_xx) + call.u_yy) - call.u_t

C5_Witness ==
    /\ call.fn = "fun_residual"
    /\ call.f_x = 1 /\ call.u_xx = 2 /\ call.u_yy = 3 /\ call.u_t = 4
    /\ call.x = 1 /\ call.t = 1 /\ call.u = 1
    /\ result.kind = "value"
    /\ result.value = 2

\* C6: draw_X(num_samples, a, b) returns num_samples points, each inside
\* the box [a, b] componentwise.
C6_SamplesInsideBox ==
    (call.fn = "draw_X" /\ Done) =>
        /\ result.kind = "value"
        /\ Len(result.value) = call.num_samples
        /\ \A i \in DOMAIN result.value : \A d \in 1..2 :
               /\ call.a.rows[d] <= result.value[i][d]
               /\ result.value[i][d] <= call.b.rows[d]

\* C7: on a batch of points heat_src returns one row per point, the value
\* of the source term at that point.
C7_PerPoint ==
    (call.fn = "heat_src" /\ call.x.rank = 2 /\ Done) =>
        /\ result.kind = "value"
        /\ Len(result.value) = Len(call.x.rows)
        /\ \A i \in DOMAIN result.value :
               result.value[i] = SpecHeatSrc(Point(call.x.rows[i][1], call.x.rows[i][2]), call.t)

\* the window chain with the two window tests in the other order
WindowsSwapped(p, x) ==
    LET n == shape0(x)
    IN  IF in_window_2(p)
        THEN region_result(x, n, x.rank = 1 /\ in_region_2(x), "window2", p)
        ELSE IF in_window_1(p)
             THEN region_result(x, n, x.rank = 1 /\ in_region_1(x), "window1", p)
             ELSE Returned(tf_zeros(n), "else", p)

\* C8: a phase of exactly 0.0 or 0.2 takes the first window's branch, a
\* phase of exactly 0.5 or 0.7 the second's, no phase passes both window
\* tests, and testing the windows in the other order gives the same outcome.
C8_ClosedDisjointWindows ==
    (call.fn = "heat_src_windows" /\ Done) =>
        LET p == call.p
        IN  /\ (p.num = 0 \/ 10 * p.num = 2 * p.den) => result.branch = "window1"
            /\ (10 * p.num = 5 * p.den \/ 10 * p.num = 7 * p.den) =>
                   result.branch = "window2"
            /\ ~(in_window_1(p) /\ in_window_2(p))
            /\ result = WindowsSwapped(p, call.x)

C8_Witness ==
    /\ call.fn = "heat_src_windows"
    /\ 10 * call.p.num = 2 * call.p.den
    /\ call.x = Point(10, 10)
    /\ result.branch = "window1"
    /\ result.value = <<1, 1>>

\* C9: every call of heat_src ends in the AttributeError of the lookup of
\* math.cel, before a phase is bound or a window tested; none returns.
C9_AlwaysRaises ==
    (call.fn = "heat_src" /\ Done) =>
        /\ result.kind = "AttributeError"
        /\ result.branch = "none"
        /\ result.phase = NoPhase
        /\ result.value = <<>>

C9_Witness ==
    /\ call.fn = "heat_src"
    /\ call.x = Point(10, 10)
    /\ call.t = Time(0)
    /\ result.kind = "AttributeError"

\* C10: with math.cel read as math.ceil the phase is in (-1, 0], the second
\* window's branch is never taken, the first window's branch is taken only
\* at integer multiples of period, and only there is a 1 returned.
C10_CeilPhase ==
    (call.fn = "heat_src" /\ Done) =>
        LET p == result.phase
        IN  /\ p.den > 0
            /\ -p.den < p.num
            /\ p.num <= 0
            /\ result.branch # "window2"
            /\ result.branch = "window1" => MultipleOfPeriod(call.t)
            /\ (\E i \in DOMAIN result.value : result.value[i] = 1) =>
                   MultipleOfPeriod(call.t)

C10_Witness ==
    /\ call.fn = "heat_src"
    /\ call.t.num > 0
    /\ MultipleOfPeriod(call.t)
    /\ result.branch = "window1"
    /\ result.value = <<1, 1>>

====
